---- MODULE Spec2Model ----
(***************************************************************************)
(* A model of themiscyra's syntax library: the bounded unfolding of the    *)
(* event loop (src/syntaxlib/ast.py), the control-flow graph built from    *)
(* a pycparser AST, and the operations on such graphs: the subgraph        *)
(* between two vertices, the insertion of a graph, the AST of a path and   *)
(* the path of its conditions (src/cfg.py).                                *)
(*                                                                         *)
(* Python objects live in `heap`: a sequence of node records, an object's  *)
(* identity being its index.  A node is [kind, name, kids]: `kind` is the  *)
(* pycparser class, `name` its string attribute (ID.name, Decl.name,       *)
(* TypeDecl.declname, Constant.value, the operator of an expression) and   *)
(* `kids` the child slots in the order pycparser iterates them, None       *)
(* being 0.  Strings are sequences of tokens, so that renaming is a real   *)
(* string operation.                                                       *)
(***************************************************************************)
EXTENDS Integers, Sequences, FiniteSets, TLC

VARIABLES
  source,         \* the program text given to the parser (a description of it)
  heap,           \* the object store
  ast,            \* the root the parser returned
  k,              \* unfold's k
  syncvariables,  \* the config: [round |-> name, mbox |-> name]
  pc,             \* where the running operation stands
  err,            \* the exception that ended it, "" when none
  main_while,     \* unfold's local main_while
  while_body,     \* unfold's local while_body (the iteration template)
  upons,          \* unfold's local upons
  next_upon,      \* position of `for upon in upons`
  digraph,        \* the ControlFlowGraph being built
  region,         \* the (first, last) pair ast_to_cfg returned
  regions,        \* history: the pair ast_to_cfg returned for each node
  start,          \* get_subgraph_between_nodes' argument start
  end,            \* get_subgraph_between_nodes' argument end
  nodes,          \* get_subgraph_between_nodes' local nodes
  to_visit,       \* get_subgraph_between_nodes' local to_visit
  place,          \* insert_graph's argument place
  graph,          \* insert_graph's argument graph
  returned        \* what the graph operation returned

vars == <<source, heap, ast, k, syncvariables, pc, err, main_while,
          while_body, upons, next_upon, digraph, region, regions,
          start, end, nodes, to_visit, place, graph, returned>>

\* The variables of the operations on a built graph.
graph_vars == <<start, end, nodes, to_visit, place, graph, returned>>

None == 0

Range(s) == {s[i] : i \in DOMAIN s}

\* The end of a walk over the list ns with the store h.  TLC hands arguments
\* over unevaluated: reading the store at every step keeps the depth of an
\* evaluation that of one list, not of the whole run.
AtEnd(h, ns) == Len(h) >= 0 /\ Len(ns) = 0

(***************************************************************************)
(* pycparser's node classes, as terms: what the parser builds from text.   *)
(***************************************************************************)
Node(kind, name, kids) == [kind |-> kind, name |-> name, kids |-> kids]

NoneT == Node("None", <<>>, <<>>)
ID(name) == Node("ID", name, <<>>)
Constant(value) == Node("Constant", <<value>>, <<>>)
BinaryOp(op, left, right) == Node("BinaryOp", <<op>>, <<left, right>>)
Assignment(lvalue, rvalue) == Node("Assignment", <<"=">>, <<lvalue, rvalue>>)
ExprList(exprs) == Node("ExprList", <<>>, exprs)
FuncCall(name, args) == Node("FuncCall", <<>>, <<ID(name), ExprList(args)>>)
Continue == Node("Continue", <<>>, <<>>)
Compound(block_items) == Node("Compound", <<>>, block_items)
\* The block the parser builds for `{}`: its block_items is None, not [].
EmptyBlock == Node("Compound", <<"None">>, <<>>)
If(cond, iftrue, iffalse) == Node("If", <<>>, <<cond, iftrue, iffalse>>)
While(cond, stmt) == Node("While", <<>>, <<cond, stmt>>)
Enum(tag) == Node("Enum", <<tag>>, <<NoneT>>)
IdentifierType(names) == Node("IdentifierType", <<names>>, <<>>)
TypeDecl(declname, type) == Node("TypeDecl", declname, <<type>>)
PtrDecl(type) == Node("PtrDecl", <<>>, <<type>>)
FuncDecl(type) == Node("FuncDecl", <<>>, <<NoneT, type>>)
Decl(name, type) == Node("Decl", name, <<type, NoneT, NoneT>>)
FuncDef(decl, body) == Node("FuncDef", <<>>, <<decl, NoneT, body>>)
FileAST(ext) == Node("FileAST", <<>>, ext)

(***************************************************************************)
(* Objects.  Load allocates the objects of a term (the parser's work);     *)
(* Show reads the term an object denotes.                                  *)
(***************************************************************************)
RECURSIVE Load(_, _), LoadList(_, _)
Load(h, t) ==
  IF t.kind = "None" THEN [h |-> h, id |-> None]
  ELSE LET r == LoadList(h, t.kids)
       IN [h  |-> Append(r.h, Node(t.kind, t.name, r.ids)),
           id |-> Len(r.h) + 1]
LoadList(h, ts) ==
  IF AtEnd(h, ts) THEN [h |-> h, ids |-> <<>>]
  ELSE LET a == Load(h, Head(ts))
           b == LoadList(a.h, Tail(ts))
       IN [h |-> b.h, ids |-> <<a.id>> \o b.ids]

RECURSIVE Show(_, _)
Show(h, n) ==
  IF n = None THEN NoneT
  ELSE Node(h[n].kind, h[n].name,
            [i \in 1..Len(h[n].kids) |-> Show(h, h[n].kids[i])])

ShowList(h, ns) == [i \in 1..Len(ns) |-> Show(h, ns[i])]

\* `for c in node`: the children that are not None, in slot order.
Children(h, n) == SelectSeq(h[n].kids, LAMBDA c : c # None)

cond(h, n) == h[n].kids[1]
iftrue(h, n) == h[n].kids[2]
iffalse(h, n) == h[n].kids[3]
stmt(h, n) == h[n].kids[2]
block_items(h, n) == h[n].kids
\* block_items is None.
NoItems(h, n) == h[n].kind = "Compound" /\ h[n].name = <<"None">>

\* copy.deepcopy keeps a memo table for the whole call: it maps every object
\* already copied to its copy, so an object reached by several references
\* is copied once and its copy is shared the same way.  Copy and CopyList
\* are the recursion under one memo; the result of a step is bound as the
\* member of a one-element set, which TLC evaluates once.
RECURSIVE Copy(_, _, _), CopyList(_, _, _)
Copy(h, memo, n) ==
  IF n = None THEN [h |-> h, memo |-> memo, id |-> None]
  ELSE IF n \in DOMAIN memo THEN [h |-> h, memo |-> memo, id |-> memo[n]]
  ELSE CHOOSE y \in {[h    |-> Append(r.h, Node(h[n].kind, h[n].name, r.ids)),
                      memo |-> r.memo @@ (n :> Len(r.h) + 1),
                      id   |-> Len(r.h) + 1] :
                       r \in {CopyList(h, memo, h[n].kids)}} : TRUE
CopyList(h, memo, ns) ==
  IF AtEnd(h, ns) THEN [h |-> h, memo |-> memo, ids |-> <<>>]
  ELSE CHOOSE y \in UNION {{[h |-> b.h, memo |-> b.memo, ids |-> <<a.id>> \o b.ids] :
                               b \in {CopyList(a.h, a.memo, Tail(ns))}} :
                             a \in {Copy(h, memo, Head(ns))}} : TRUE

\* copy.deepcopy of one object, and of a list of objects: a call starts
\* with an empty memo.
DeepCopy(h, n) ==
  LET r == Copy(h, <<>>, n) IN [h |-> r.h, id |-> r.id]
DeepCopyList(h, ns) ==
  LET r == CopyList(h, <<>>, ns) IN [h |-> r.h, ids |-> r.ids]

(***************************************************************************)
(* src/syntaxlib/ast.py                                                    *)
(***************************************************************************)
SYNCVAR_UNFOLD == <<"_", "ITER">>

\* rename_syncvar without its replace: the placeholder stays in the name.
rename_syncvar_placeholder(name, iteration) == name \o SYNCVAR_UNFOLD

\* name + '_ITER', then every 'ITER' replaced by str(iteration).
rename_syncvar(name, iteration) ==
  LET newname == name \o SYNCVAR_UNFOLD
  IN [j \in 1..Len(newname) |->
        IF newname[j] = "ITER" THEN ToString(iteration) ELSE newname[j]]

\* RenameVariablesVisitor with visit_ID matching the name's stem, so that a
\* name that already has a suffix matches too.
RECURSIVE rename_by_stem(_, _, _, _)
rename_by_stem(h, n, variables, iteration) ==
  IF h[n].kind = "ID"
  THEN IF <<h[n].name[1]>> \in Range(variables)
       THEN [h EXCEPT ![n].name = rename_syncvar(h[n].name, iteration)]
       ELSE h
  ELSE LET kids == Children(h, n)
           Walked[i \in 0..Len(kids)] ==
             IF i = 0 THEN h
             ELSE rename_by_stem(Walked[i - 1], kids[i], variables, iteration)
       IN Walked[Len(kids)]

\* RenameVariablesVisitor: visit_ID renames, every other node is walked.
RECURSIVE rename_iterated_variables(_, _, _, _), RenameChildren(_, _, _, _)
rename_iterated_variables(h, n, variables, iteration) ==
  IF h[n].kind = "ID"
  THEN IF h[n].name \in Range(variables)
       THEN [h EXCEPT ![n].name = rename_syncvar(h[n].name, iteration)]
       ELSE h
  ELSE RenameChildren(h, Children(h, n), variables, iteration)
RenameChildren(h, ns, variables, iteration) ==
  IF AtEnd(h, ns) THEN h
  ELSE RenameChildren(rename_iterated_variables(h, Head(ns), variables, iteration),
                      Tail(ns), variables, iteration)

\* get_main_while: visit_While keeps the node and does not descend; any
\* other node is walked in order, so the last loop met wins.
RECURSIVE MainWhileVisit(_, _, _), MainWhileChildren(_, _, _)
MainWhileVisit(h, n, result) ==
  IF h[n].kind = "While" THEN n
  ELSE MainWhileChildren(h, Children(h, n), result)
MainWhileChildren(h, ns, result) ==
  IF Len(ns) = 0 THEN result
  ELSE MainWhileChildren(h, Tail(ns), MainWhileVisit(h, Head(ns), result))

get_main_while(h, root) == MainWhileVisit(h, root, None)

\* list.remove(x): the first element equal to x goes (objects compare by
\* identity).
RECURSIVE ListRemove(_, _)
ListRemove(items, x) ==
  IF Len(items) = 0 THEN items
  ELSE IF Head(items) = x THEN Tail(items)
  ELSE <<Head(items)>> \o ListRemove(Tail(items), x)

\* The loop of insert_node_after_continue over the copied list `items`:
\* each Continue is taken out, a fresh deep copy of `node` is appended to
\* the block, and the Continue is appended after it.
RECURSIVE InsertAtContinues(_, _, _, _)
InsertAtContinues(h, codeast, items, node) ==
  IF AtEnd(h, items) THEN h
  ELSE LET i == Head(items)
       IN IF h[i].kind = "Continue"
          THEN LET removed == ListRemove(block_items(h, codeast), i)
                   body == DeepCopyList(h, node)
                   h1 == [body.h EXCEPT ![codeast].kids = removed \o body.ids \o <<i>>]
               IN InsertAtContinues(h1, codeast, Tail(items), node)
          ELSE InsertAtContinues(h, codeast, Tail(items), node)

\* insert_node_after_continue: returns the new store, the value returned
\* to map_dfs ("False" stops the descent, "None" lets it go on) and the
\* exception raised, "" when none: line 242 walks codeast.block_items,
\* which is None in the block the parser builds for `{}` (TypeError, and
\* nothing is returned).
insert_node_after_continue(h, codeast, node) ==
  IF h[codeast].kind = "Compound"
  THEN LET continues == SelectSeq(block_items(h, codeast),
                                  LAMBDA n : h[n].kind = "Continue")
       IN IF NoItems(h, codeast)
          THEN [h |-> h, ret |-> "", err |-> "TypeError"]
          ELSE IF Len(continues) > 0
          THEN [h |-> InsertAtContinues(h, codeast, block_items(h, codeast), node),
                ret |-> "False", err |-> ""]
          ELSE [h |-> h, ret |-> "None", err |-> ""]
  ELSE [h |-> h, ret |-> "None", err |-> ""]

\* The store h, reached without an exception.
Ok(h) == [h |-> h, err |-> ""]

\* map_dfs with function = insert_node_after_continue, its only use in
\* unfold.  A list is walked by position, as Python's list iterator does.
\* The result is [h, err]: an exception raised by the function ends the
\* walk, with the store as it is then.
RECURSIVE map_dfs(_, _, _), MapDfsList(_, _, _, _)
map_dfs(h, node, args) ==
  LET r == insert_node_after_continue(h, node, args)
      typ == h[node].kind
  IN IF r.err # "" THEN [h |-> r.h, err |-> r.err]
     ELSE IF r.ret = "False" THEN Ok(r.h)
     ELSE IF typ = "FileAST" \/ typ = "Compound"
          THEN MapDfsList(r.h, node, 1, args)
     ELSE IF typ = "If"
          THEN LET t == map_dfs(r.h, iftrue(r.h, node), args)
               IN IF t.err = "" /\ iffalse(t.h, node) # None
                  THEN map_dfs(t.h, iffalse(t.h, node), args)
                  ELSE t
     ELSE IF typ = "While" THEN map_dfs(r.h, stmt(r.h, node), args)
     ELSE IF typ = "FuncDef" THEN map_dfs(r.h, h[node].kids[3], args)
     ELSE Ok(r.h)
MapDfsList(h, node, idx, args) ==
  IF idx > Len(h[node].kids) THEN Ok(h)
  ELSE LET s == map_dfs(h, h[node].kids[idx], args)
       IN IF s.err # "" THEN s
          ELSE MapDfsList(s.h, node, idx + 1, args)

NonIfs(h, ns) == SelectSeq(ns, LAMBDA n : h[n].kind # "If")
OnlyIfs(h, ns) == SelectSeq(ns, LAMBDA n : h[n].kind = "If")

\* Lines 139-143 with the mailbox renamed to the iteration's own generation.
RECURSIVE RenameUponCodeNoLag(_, _, _, _)
RenameUponCodeNoLag(h, upon_code, sv, iteration) ==
  IF AtEnd(h, upon_code) THEN h
  ELSE LET stm == Head(upon_code)
           h1 == rename_iterated_variables(h, stm, <<sv.mbox>>, iteration)
           h2 == rename_iterated_variables(h1, stm, <<sv.round>>, iteration)
       IN RenameUponCodeNoLag(h2, Tail(upon_code), sv, iteration)

\* _unfold, lines 139-143: the branch's own statements.
RECURSIVE RenameUponCode(_, _, _, _)
RenameUponCode(h, upon_code, sv, iteration) ==
  IF AtEnd(h, upon_code) THEN h
  ELSE LET stm == Head(upon_code)
           h1 == IF iteration > 0
                 THEN rename_iterated_variables(h, stm, <<sv.mbox>>, iteration - 1)
                 ELSE h
           h2 == rename_iterated_variables(h1, stm, <<sv.round>>, iteration)
       IN RenameUponCode(h2, Tail(upon_code), sv, iteration)

\* _unfold, lines 146-148 and 151-153: one rename over each node of a list.
RECURSIVE RenameEach(_, _, _, _)
RenameEach(h, ns, variables, iteration) ==
  IF AtEnd(h, ns) THEN h
  ELSE RenameEach(rename_iterated_variables(h, Head(ns), variables, iteration),
                  Tail(ns), variables, iteration)

\* Lines 163-166 with the round left at the iteration's own generation.
RECURSIVE RenameTerminalSameRound(_, _, _, _)
RenameTerminalSameRound(h, upon_code, sv, iteration) ==
  IF AtEnd(h, upon_code) THEN h
  ELSE LET stm == Head(upon_code)
           h1 == rename_iterated_variables(h, stm, <<sv.round>>, iteration)
           h2 == rename_iterated_variables(h1, stm, <<sv.mbox>>, iteration)
       IN RenameTerminalSameRound(h2, Tail(upon_code), sv, iteration)

\* _unfold, lines 163-166: the last pass, on a handler that is not expanded.
RECURSIVE RenameTerminal(_, _, _, _)
RenameTerminal(h, upon_code, sv, iteration) ==
  IF AtEnd(h, upon_code) THEN h
  ELSE LET stm == Head(upon_code)
           h1 == rename_iterated_variables(h, stm, <<sv.round>>, iteration + 1)
           h2 == rename_iterated_variables(h1, stm, <<sv.mbox>>, iteration)
       IN RenameTerminal(h2, Tail(upon_code), sv, iteration)

\* _unfold, and its loop over new_upons (lines 159-166).  The result is
\* [h, err]: an exception raised under map_dfs (line 155) or in a deeper
\* call (line 161) ends the call, with the store as it is then.
RECURSIVE _unfold(_, _, _, _, _, _), UnfoldUpons(_, _, _, _, _, _)
_unfold(h, compound, body, sv, iteration, unfoldings) ==
  LET copied == DeepCopyList(h, body)
      new_body_iteration == copied.ids
      upon_code == NonIfs(copied.h, Children(copied.h, compound))
      h1 == RenameUponCode(copied.h, upon_code, sv, iteration)
      new_iter_code == NonIfs(h1, new_body_iteration)
      h2 == RenameEach(h1, new_iter_code, <<sv.mbox, sv.round>>, iteration)
      conds == [i \in 1..Len(OnlyIfs(h2, new_body_iteration)) |->
                  cond(h2, OnlyIfs(h2, new_body_iteration)[i])]
      h3 == RenameEach(h2, conds, <<sv.mbox, sv.round>>, iteration)
      h4 == map_dfs(h3, compound, new_body_iteration)
      new_upons == OnlyIfs(h4.h, Children(h4.h, compound))
  IN IF h4.err # "" THEN h4
     ELSE UnfoldUpons(h4.h, new_upons, body, sv, iteration, unfoldings)
UnfoldUpons(h, new_upons, body, sv, iteration, unfoldings) ==
  IF AtEnd(h, new_upons) THEN Ok(h)
  ELSE LET upon == Head(new_upons)
           s == IF unfoldings > iteration
                THEN _unfold(h, iftrue(h, upon), body, sv, iteration + 1, unfoldings)
                ELSE Ok(RenameTerminal(h, NonIfs(h, Children(h, iftrue(h, upon))),
                                       sv, iteration))
       IN IF s.err # "" THEN s
          ELSE UnfoldUpons(s.h, Tail(new_upons), body, sv, iteration, unfoldings)

\* DeclareIteratedVariablesVisitor.  The visitor's state is a record: the
\* store h, the list `visited`, `current_parent`, and the exception raised
\* (err, "" while none), which ends the walk.
\* Lines 711-717 and 723-729: copy i of the declaration `node`; `declname`
\* is the path from the copy to the node whose declname is set.
DeclareCopy(st, node, declname, i) ==
  LET c == DeepCopy(st.h, node)
      new_decl == c.id
      newname == rename_syncvar(c.h[new_decl].name, i)
      target == IF declname = 1 THEN c.h[new_decl].kids[1]
                ELSE c.h[c.h[new_decl].kids[1]].kids[1]
      h1 == [c.h EXCEPT ![new_decl].name = newname, ![target].name = newname]
      parent == st.current_parent
  IN IF parent = None \/ h1[parent].kind # "Compound"
     THEN [st EXCEPT !.h = h1, !.visited = Append(@, new_decl),
                     !.err = "AttributeError"]
     ELSE [st EXCEPT !.h = [h1 EXCEPT ![parent].kids = <<new_decl>> \o @],
                     !.visited = Append(@, new_decl)]

\* for i in range(0, self.iterations+1)
RECURSIVE DeclareCopies(_, _, _, _, _)
DeclareCopies(st, node, declname, i, iterations) ==
  IF st.err # "" \/ i > iterations THEN st
  ELSE DeclareCopies(DeclareCopy(st, node, declname, i), node, declname,
                     i + 1, iterations)

visit_Decl(st, node, variables, iterations) ==
  LET h == st.h
      type == h[node].kids[1]
  IN IF h[type].kind = "TypeDecl"
     THEN IF /\ h[type].kids[1] # None
             /\ h[h[type].kids[1]].kind = "Enum"
             /\ h[node].name \in Range(variables)
             /\ node \notin Range(st.visited)
          THEN DeclareCopies([st EXCEPT !.visited = Append(@, node)],
                             node, 1, 0, iterations)
          ELSE st
     ELSE IF h[type].kind = "PtrDecl"
     THEN IF h[h[type].kids[1]].kind # "TypeDecl"
          THEN [st EXCEPT !.err = "AttributeError"]
          ELSE IF /\ h[h[type].kids[1]].name \in Range(variables)
                  /\ node \notin Range(st.visited)
          THEN DeclareCopies([st EXCEPT !.visited = Append(@, node)],
                             node, 2, 0, iterations)
          ELSE st
     ELSE st

\* generic_visit walks `for c in node`: a generator over the node's own
\* list, read again at every step, so an insertion shifts what comes next.
RECURSIVE DeclareVisit(_, _, _, _), DeclareChildren(_, _, _, _, _)
DeclareVisit(st, node, variables, iterations) ==
  IF st.h[node].kind = "Decl"
  THEN visit_Decl(st, node, variables, iterations)
  ELSE LET oldparent == st.current_parent
           st1 == DeclareChildren([st EXCEPT !.current_parent = node], node, 1,
                                  variables, iterations)
       IN IF st1.err # "" THEN st1
          ELSE [st1 EXCEPT !.current_parent = oldparent]
DeclareChildren(st, node, idx, variables, iterations) ==
  IF st.err # "" \/ idx > Len(st.h[node].kids) THEN st
  ELSE LET c == st.h[node].kids[idx]
       IN DeclareChildren(IF c = None THEN st
                          ELSE DeclareVisit(st, c, variables, iterations),
                          node, idx + 1, variables, iterations)

declare_iterated_variables(h, root, variables, iterations) ==
  DeclareVisit([h |-> h, visited |-> <<>>, current_parent |-> None, err |-> ""],
               root, variables, iterations)

(***************************************************************************)
(* The programs unfold is run on: one function whose block declares the    *)
(* synchronization variables and holds the event loop.  A program is       *)
(* described by the handlers of its loop, the place and shape of the       *)
(* declaration of `round`, whether it has a loop at all, and what the      *)
(* loop's body is: a block with statements, the block `{}`, or a single    *)
(* statement without braces.  A handler's block, or a block inside it,     *)
(* may be `{}` too: the parser gives such a block block_items None.        *)
(***************************************************************************)
MaxK == 2          \* unfold counts 1..MaxK
MaxHandlers == 2   \* handlers in the loop body
MaxPos == 2        \* statements before the declaration of round

Round == <<"round">>
Mbox == <<"mbox">>
Config == [round |-> Round, mbox |-> Mbox]

HandlerShapes == {"direct", "use", "nocont", "nested", "both", "twice",
                  "empty", "emptyin", "emptynocont"}

\* Handler number i: if (round == i) { ...; round = i + 2; ... }
Handler(shape, i) ==
  LET guard == BinaryOp("==", ID(Round), Constant(ToString(i)))
      setr == Assignment(ID(Round), Constant(ToString(i + 2)))
      inner == If(BinaryOp("==", ID(Mbox), Constant("0")),
                  Compound(<<setr, Continue>>), NoneT)
      other == If(BinaryOp("==", ID(Mbox), Constant("1")),
                  Compound(<<setr, Continue>>), NoneT)
      hollow == If(BinaryOp("==", ID(Mbox), Constant("0")), EmptyBlock, NoneT)
      body == CASE shape = "direct" -> <<setr, Continue>>
                [] shape = "use" -> <<Assignment(ID(<<"old">>), ID(Mbox)), setr, Continue>>
                [] shape = "nocont" -> <<setr>>
                [] shape = "nested" -> <<inner>>
                [] shape = "both" -> <<inner, setr, Continue>>
                [] shape = "twice" -> <<inner, other>>
                [] shape = "empty" -> <<>>
                [] shape = "emptyin" -> <<hollow, setr, Continue>>
                [] shape = "emptynocont" -> <<hollow, setr>>
  IN If(guard, IF shape = "empty" THEN EmptyBlock ELSE Compound(body), NoneT)

\* mbox = havoc(round); handler 1; ...; handler n
LoopBody(handlers) ==
  <<Assignment(ID(Mbox), FuncCall(<<"havoc">>, <<ID(Round)>>))>>
  \o [i \in 1..Len(handlers) |-> Handler(handlers[i], i)]

IntDecl(name) == Decl(name, TypeDecl(name, IdentifierType("int")))
Filler(i) == IntDecl(<<"f", ToString(i)>>)
RoundDecl(dshape) ==
  CASE dshape = "enum" -> Decl(Round, TypeDecl(Round, Enum("round_t")))
    [] dshape = "ptr" -> Decl(Round, PtrDecl(TypeDecl(Round, IdentifierType("int"))))
    [] dshape = "int" -> IntDecl(Round)
MboxDecl == Decl(Mbox, PtrDecl(TypeDecl(Mbox, IdentifierType("msg"))))

Program(src) ==
  LET fillers == [i \in 1..src.pos |-> Filler(i)]
      single == Assignment(ID(<<"x">>), Constant("0"))
      loop == IF src.loop
              THEN <<While(Constant("1"),
                           CASE src.body = "block" -> Compound(LoopBody(src.handlers))
                             [] src.body = "empty" -> EmptyBlock
                             [] src.body = "stmt" -> single)>>
              ELSE <<single>>
      rest == <<Filler(src.pos + 1), MboxDecl>> \o loop
      round == RoundDecl(src.dshape)
      block == CASE src.scope = "block" -> fillers \o <<round>> \o rest
                 [] src.scope = "inner" -> fillers \o <<Compound(<<round>>)>> \o rest
                 [] src.scope = "file" -> fillers \o rest
      main == FuncDef(Decl(<<"main">>, FuncDecl(TypeDecl(<<"main">>, IdentifierType("int")))),
                      Compound(block))
  IN FileAST(IF src.scope = "file" THEN <<round, main>> ELSE <<main>>)

HandlerLists == UNION {[1..n -> HandlerShapes] : n \in 0..MaxHandlers}

Sources ==
  {[handlers |-> hs, loop |-> TRUE, body |-> "block", scope |-> "block",
    pos |-> 0, dshape |-> "enum"] :
       hs \in HandlerLists}
  \cup
  {[handlers |-> <<"direct", "direct">>, loop |-> l, body |-> "block",
    scope |-> s, pos |-> p, dshape |-> d] :
       l \in BOOLEAN, s \in {"block", "inner", "file"}, p \in 0..MaxPos,
       d \in {"enum", "ptr", "int"}}
  \cup
  {[handlers |-> <<>>, loop |-> TRUE, body |-> b, scope |-> "block",
    pos |-> 0, dshape |-> d] :
       b \in {"empty", "stmt"}, d \in {"enum", "int"}}

EmptyGraph == [nodes |-> <<>>, edges |-> {}]

\* No operation on a graph has been called.
NoGraphCall ==
  /\ start = None /\ end = None /\ nodes = {} /\ to_visit = {}
  /\ place = None /\ graph = EmptyGraph /\ returned = None

Init ==
  /\ source \in Sources
  /\ k \in 1..MaxK
  /\ syncvariables = Config
  /\ LET parsed == Load(<<>>, Program(source))
     IN heap = parsed.h /\ ast = parsed.id
  /\ pc = "start"
  /\ err = ""
  /\ main_while = None
  /\ while_body = <<>>
  /\ upons = <<>>
  /\ next_upon = 1
  /\ digraph = EmptyGraph
  /\ region = <<None, None>>
  /\ regions = <<>>
  /\ NoGraphCall

\* unfold with the declarations synthesized before the loop is looked at.
UnfoldNoLoopLate ==
  /\ pc = "start"
  /\ get_main_while(heap, ast) = None
  /\ heap' = declare_iterated_variables(heap, ast,
                <<syncvariables.round, syncvariables.mbox>>, k).h
  /\ pc' = "raised"
  /\ err' = "AttributeError"
  /\ UNCHANGED <<source, ast, k, syncvariables, main_while, while_body,
                 upons, next_upon, digraph, region, regions,
                 graph_vars>>

\* unfold, line 119-120 when get_main_while returns None: main_while.stmt
\* raises AttributeError.
UnfoldNoLoop ==
  /\ pc = "start"
  /\ get_main_while(heap, ast) = None
  /\ pc' = "raised"
  /\ err' = "AttributeError"
  /\ UNCHANGED <<source, heap, ast, k, syncvariables, main_while, while_body,
                 upons, next_upon, digraph, region, regions,
                 graph_vars>>

\* Line 122 with the loop body itself kept as the template, not a deep
\* copy of it.
TemplateShared(h, while_statements) == [h |-> h, ids |-> while_statements]

\* unfold, line 122: while_body = copy.deepcopy(main_while.stmt.block_items).
TemplateOf(h, while_statements) == DeepCopyList(h, while_statements)

\* unfold, lines 119-124.  A loop whose body is not a block has no
\* block_items (line 120, AttributeError); the block `{}` has block_items
\* None, which deepcopy returns as it is and line 124 cannot walk
\* (TypeError).  Neither has changed anything.
UnfoldBegin ==
  /\ pc = "start"
  /\ get_main_while(heap, ast) # None
  /\ LET mw == get_main_while(heap, ast)
         body == stmt(heap, mw)
         while_statements == block_items(heap, body)
         copied == TemplateOf(heap, while_statements)
     IN /\ main_while' = mw
        /\ IF body = None \/ heap[body].kind # "Compound"
           THEN /\ pc' = "raised"
                /\ err' = "AttributeError"
                /\ UNCHANGED <<heap, while_body, upons>>
           ELSE IF NoItems(heap, body)
           THEN /\ pc' = "raised"
                /\ err' = "TypeError"
                /\ while_body' = None
                /\ UNCHANGED <<heap, upons>>
           ELSE /\ pc' = "declare"
                /\ heap' = copied.h
                /\ while_body' = copied.ids
                /\ upons' = OnlyIfs(heap, while_statements)
                /\ UNCHANGED err
  /\ UNCHANGED <<source, ast, k, syncvariables, next_upon, digraph, region, regions,
                 graph_vars>>

\* unfold, lines 126-128.
UnfoldDeclare ==
  /\ pc = "declare"
  /\ LET vars_to_declare == <<syncvariables.round, syncvariables.mbox>>
         st == declare_iterated_variables(heap, ast, vars_to_declare, k)
     IN /\ heap' = st.h
        /\ err' = st.err
        /\ pc' = IF st.err = "" THEN "upons" ELSE "raised"
  /\ UNCHANGED <<source, ast, k, syncvariables, main_while, while_body, upons,
                 next_upon, digraph, region, regions,
                 graph_vars>>

\* Line 131 with k passed where the code passes k - 1.
UnfoldingsOneMore(kk) == kk

\* unfold, line 131: unfoldings=k-1.
Unfoldings(kk) == kk - 1

\* unfold, lines 130-131: one turn of `for upon in upons`.  An exception
\* raised in _unfold ends unfold: the handlers that follow are not unfolded.
UnfoldUpon ==
  /\ pc = "upons"
  /\ next_upon <= Len(upons)
  /\ LET r == _unfold(heap, iftrue(heap, upons[next_upon]), while_body,
                      syncvariables, 0, Unfoldings(k))
     IN /\ heap' = r.h
        /\ err' = r.err
        /\ pc' = IF r.err = "" THEN "upons" ELSE "raised"
        /\ next_upon' = IF r.err = "" THEN next_upon + 1 ELSE next_upon
  /\ UNCHANGED <<source, ast, k, syncvariables, main_while, while_body,
                 upons, digraph, region, regions,
                 graph_vars>>

\* unfold returns.
UnfoldReturn ==
  /\ pc = "upons"
  /\ next_upon > Len(upons)
  /\ pc' = "done"
  /\ UNCHANGED <<source, heap, ast, k, syncvariables, err, main_while,
                 while_body, upons, next_upon, digraph, region, regions,
                 graph_vars>>

Next == UnfoldNoLoop \/ UnfoldBegin \/ UnfoldDeclare \/ UnfoldUpon \/ UnfoldReturn

Spec == Init /\ [][Next]_vars

(***************************************************************************)
(* Properties of unfold.                                                   *)
(***************************************************************************)
\* Generation i of a synchronization variable: `_<i>` after its name.
Gen(name, i) == name \o <<"_", ToString(i)>>

\* The objects under n, n included.
RECURSIVE Under(_, _)
Under(h, n) ==
  IF n = None THEN {}
  ELSE {n} \cup UNION {Under(h, h[n].kids[i]) : i \in 1..Len(h[n].kids)}

\* The statements of the main loop's body, and of the function's block.
LoopItems == block_items(heap, stmt(heap, main_while))
MainBlock(h, root) == h[h[root].kids[Len(h[root].kids)]].kids[3]

\* The names under which the statements ss refer to a variable.
Refs(h, ss, variable) ==
  {h[n].name : n \in {m \in UNION {Under(h, ss[i]) : i \in 1..Len(ss)} :
                        h[m].kind = "ID" /\ h[m].name[1] = variable[1]}}

\* The generation a name carries: -1 when it has no suffix.
GenOf(name) ==
  IF Len(name) = 1 THEN -1
  ELSE IF Len(name) = 3 /\ \E i \in 0..(k + 1) : name = Gen(<<name[1]>>, i)
       THEN CHOOSE i \in 0..(k + 1) : name = Gen(<<name[1]>>, i)
       ELSE k + 2

\* A statement of a spliced copy of the template: mbox = havoc(round), under
\* whatever names; no handler of the programs calls a function.
Splices(h, ss) ==
  SelectSeq(ss, LAMBDA n : h[n].kind = "Assignment" /\ h[h[n].kids[2]].kind = "FuncCall")
OwnStatements(h, ss) ==
  SelectSeq(ss, LAMBDA n : h[n].kind # "If"
                           /\ ~(h[n].kind = "Assignment" /\ h[h[n].kids[2]].kind = "FuncCall"))

\* The loop has handlers, and the true-branch of each ends in a Continue
\* of its own.
DirectContinue(src) ==
  /\ src.loop
  /\ Len(src.handlers) > 0
  /\ \A i \in 1..Len(src.handlers) :
       src.handlers[i] \in {"direct", "use", "both", "emptyin"}

Havoc(m, r) == Assignment(ID(m), FuncCall(<<"havoc">>, <<ID(r)>>))
SetRound(r, i) == Assignment(ID(r), Constant(ToString(i + 2)))
GuardOn(r, i) == BinaryOp("==", ID(r), Constant(ToString(i)))

\* The handler of the deepest copy, and the top-level handler, of the loop
\*   mbox = havoc(round); if (round == 1) {round = 3; continue;}
\*                        if (round == 2) {round = 4; continue;}
\* unfolded once.
OnceTerminal(i) ==
  If(GuardOn(Gen(Round, 0), i),
     Compound(<<SetRound(Gen(Round, 1), i), Continue>>), NoneT)
OnceHandler(i) ==
  If(GuardOn(Round, i),
     Compound(<<SetRound(Gen(Round, 0), i), Havoc(Gen(Mbox, 0), Gen(Round, 0)),
                OnceTerminal(1), OnceTerminal(2), Continue>>), NoneT)

\* C1: unfolding the loop body `mbox = havoc(round); if (round == 1)
\* {round = 3; continue;} if (round == 2) {round = 4; continue;}` with
\* k = 1 leaves the loop's top-level statement and both top-level guards
\* unsuffixed and turns each handler body into: its own assignment, now to
\* round_0; the spliced copy mbox_0 = havoc(round_0) with two nested
\* handlers guarded by round_0 == 1 and round_0 == 2 whose bodies assign
\* round_1 and end in Continue; and the handler's Continue, last.
C1_UnfoldOnce ==
  (pc = "done" /\ source.handlers = <<"direct", "direct">> /\ k = 1)
  => ShowList(heap, LoopItems) = <<Havoc(Mbox, Round), OnceHandler(1), OnceHandler(2)>>

C1_Witness ==
  /\ pc = "done" /\ source.handlers = <<"direct", "direct">> /\ k = 1
  /\ source.scope = "block" /\ source.dshape = "int"

\* The branch B of a handler reached at iteration i of an unfolding of
\* count kk: below kk it holds one spliced copy, of generation i, and the
\* handlers of that copy are branches of iteration i + 1; at kk it holds no
\* copy and its non-conditional statements refer to the round of
\* generation kk only.
RECURSIVE Unfolded(_, _, _, _)
Unfolded(h, B, i, kk) ==
  LET items == block_items(h, B)
      splices == Splices(h, items)
      at == CHOOSE j \in 1..Len(items) : items[j] = splices[1]
      copied == OnlyIfs(h, SubSeq(items, at + 1, Len(items)))
  IN IF i < kk
     THEN /\ ShowList(h, splices) = <<Havoc(Gen(Mbox, i), Gen(Round, i))>>
          /\ Len(copied) > 0
          /\ \A j \in 1..Len(copied) :
               /\ Refs(h, <<cond(h, copied[j])>>, Round) = {Gen(Round, i)}
               /\ Unfolded(h, iftrue(h, copied[j]), i + 1, kk)
     ELSE /\ splices = <<>>
          /\ Refs(h, NonIfs(h, items), Round) = {Gen(Round, kk)}

\* C2: for every k >= 1 and every loop body made of non-conditional
\* statements and handlers whose true-branch ends in a direct Continue,
\* unfold leaves exactly k levels of spliced template copies nested under
\* each top-level handler (generations 0..k-1, one inside a handler of the
\* previous one); the handlers of the deepest copy receive no splice and
\* the round their non-conditional statements refer to is generation k.
C2_Levels ==
  (pc = "done" /\ DirectContinue(source))
  => \A j \in 1..Len(upons) : Unfolded(heap, iftrue(heap, upons[j]), 0, k)

C2_Witness ==
  pc = "done" /\ source.handlers = <<"use", "direct">> /\ k = 2


\* The declarations named `name` under root.
Decls(h, root, name) ==
  {n \in Under(h, root) : h[n].kind = "Decl" /\ h[n].name = name}
AllDecls(h, root) == {n \in Under(h, root) : h[n].kind = "Decl"}

\* The declaration phase recognizes the declaration of the variable: an
\* enum, or a pointer.
Recognized(src, variable) ==
  IF variable = Round THEN src.dshape \in {"enum", "ptr"} ELSE TRUE
RecognizedRoles(src) == {v \in {Round, Mbox} : Recognized(src, v)}

\* The program as parsed, before unfold touched it.
Parsed == Load(<<>>, Program(source))

\* The declaration t under another name: the Decl and its TypeDecl carry it.
RECURSIVE Redeclared(_, _)
Redeclared(t, name) ==
  Node(t.kind, IF t.kind \in {"Decl", "TypeDecl"} THEN name ELSE t.name,
       [i \in 1..Len(t.kids) |-> Redeclared(t.kids[i], name)])
DeclTerm(src, variable) == IF variable = Round THEN RoundDecl(src.dshape) ELSE MboxDecl

\* The declaration phase has returned.
Declared == pc \in {"upons", "done"}

\* The declaration phase has raised: unfold got past its lines 119-124 (the
\* loop's body is a block with statements) and stopped with the
\* AttributeError of lines 717/729.
DeclareRaised ==
  /\ pc = "raised" /\ err = "AttributeError"
  /\ main_while # None
  /\ stmt(heap, main_while) # None
  /\ heap[stmt(heap, main_while)].kind = "Compound"
  /\ ~NoItems(heap, stmt(heap, main_while))

\* The declaration phase is over, whichever way it ended.
DeclareOver == Declared \/ DeclareRaised

\* C3: when the declaration phase is over, every recognized declaration of
\* a synchronization variable, wherever the program declares it, has been
\* expanded exactly once, although the enclosing list is modified while it
\* is walked: for each i in 0..k there is exactly one declaration named
\* <name>_<i>, a copy of the original under that name, so exactly k+1 new
\* declarations per variable; the original is kept; a declaration of an
\* unrecognized shape gets none.
C3_DeclaredOnce ==
  DeclareOver =>
    /\ \A v \in {Round, Mbox} :
         /\ Cardinality(Decls(heap, ast, v)) = 1
         /\ \A i \in 0..k :
              IF Recognized(source, v)
              THEN /\ Cardinality(Decls(heap, ast, Gen(v, i))) = 1
                   /\ \A n \in Decls(heap, ast, Gen(v, i)) :
                        Show(heap, n) = Redeclared(DeclTerm(source, v), Gen(v, i))
              ELSE Decls(heap, ast, Gen(v, i)) = {}
    /\ Cardinality(AllDecls(heap, ast))
         = Cardinality(AllDecls(Parsed.h, Parsed.id))
           + (k + 1) * Cardinality(RecognizedRoles(source))

\* Where the declaration of round sits in the list ns, 0 when it does not.
IndexOf(h, ns, name) ==
  IF \E j \in 1..Len(ns) : h[ns[j]].kind = "Decl" /\ h[ns[j]].name = name
  THEN CHOOSE j \in 1..Len(ns) : h[ns[j]].kind = "Decl" /\ h[ns[j]].name = name
  ELSE 0

\* Where the object x sits in the list ns.
Pos(ns, x) == CHOOSE j \in 1..Len(ns) : ns[j] = x

\* C4 as stated: for every position p of a recognized declaration in its
\* block, after the declaration phase the k+1 copies sit immediately before
\* the original in the order _0, ..., _k, and the block's other statements
\* keep their relative order and their side of the declaration.
C4_CopiesBeforeOriginal ==
  (Declared /\ source.scope = "block" /\ Recognized(source, Round))
  => LET before == block_items(Parsed.h, MainBlock(Parsed.h, Parsed.id))
         after == block_items(heap, MainBlock(heap, ast))
         p == IndexOf(heap, after, Round)
         others == SelectSeq(after, LAMBDA n : n \in Range(before))
     IN /\ p > k + 1
        /\ \A i \in 0..k : Show(heap, after[p - (k + 1) + i])
                             = Redeclared(RoundDecl(source.dshape), Gen(Round, i))
        /\ others = before
        /\ \A j \in 1..Len(after) :
             after[j] \in Range(before)
             => (j < p <=> Pos(before, after[j]) < Pos(before, after[p]))


\* C5 as stated: with a block declaring one enum variable listed in
\* `variables` and iterations = 2, exactly two declarations are added,
\* named _1 and _2, and they follow the original.
C5_TwoCopiesAfter ==
  (Declared /\ k = 2 /\ source.scope = "block" /\ source.dshape = "enum")
  => LET after == block_items(heap, MainBlock(heap, ast))
     IN /\ {i \in 0..(k + 1) : Decls(heap, ast, Gen(Round, i)) # {}} = {1, 2}
        /\ \A i \in {1, 2} :
             IndexOf(heap, after, Gen(Round, i)) > IndexOf(heap, after, Round)

\* C6 as stated: when no loop is reachable from the root, unfold fails with
\* a PreconditionError before mutating anything, the AST left as it was.
C6_PreconditionError ==
  ~source.loop
  => /\ pc \in {"start", "raised"}
     /\ pc = "raised" => err = "PreconditionError"
     /\ heap = Parsed.h

\* C6, as the code has it: no loop found, get_main_while returns None and
\* reading its `stmt` raises AttributeError, no precondition error of its
\* own; this happens before anything is changed, so the AST is as parsed.
C6_AttributeError ==
  ~source.loop
  => /\ pc \in {"start", "raised"}
     /\ pc = "raised" => err = "AttributeError"
     /\ heap = Parsed.h
     /\ Show(heap, ast) = Program(source)

C6_Witness ==
  ~source.loop /\ pc = "raised" /\ err = "AttributeError" /\ source.dshape = "enum"
  /\ source.scope = "block"

\* The names, with a suffix, under which the loop refers to the
\* synchronization variables.
Suffixed(h, loop) ==
  {name \in Refs(h, <<loop>>, Round) \cup Refs(h, <<loop>>, Mbox) : Len(name) > 1}

\* C7: after unfold on a loop whose handlers end in a direct Continue,
\* every suffixed reference to a synchronization variable in the loop
\* carries a generation in 0..k, so that it has one of the k+1
\* declarations the declaration phase made for a recognized declaration;
\* the generations referred to are exactly 0..k.
C7_Generations ==
  (pc = "done" /\ DirectContinue(source))
  => LET names == Suffixed(heap, main_while)
     IN /\ names \subseteq {Gen(v, i) : v \in {Round, Mbox}, i \in 0..k}
        /\ {GenOf(name) : name \in names} = 0..k
        /\ \A name \in names :
             Recognized(source, <<name[1]>>)
             => Cardinality(Decls(heap, ast, name)) = 1

C7_Witness ==
  /\ pc = "done" /\ source.handlers = <<"both", "use">> /\ k = 2
  /\ Gen(Round, 2) \in Suffixed(heap, main_while)

\* The true-branches of the conditionals under the loop.
Branches(h, loop) ==
  {iftrue(h, n) : n \in {m \in Under(h, loop) : h[m].kind = "If"}}

\* C8 as stated: within any one handler branch, spliced statements
\* included, the statements that refer to round at generation i refer to
\* mbox at generation i-1 (no suffix standing for generation -1).
C8_MboxLags ==
  pc = "done"
  => \A B \in Branches(heap, main_while) :
       LET ss == NonIfs(heap, block_items(heap, B))
       IN \A r \in Refs(heap, ss, Round), m \in Refs(heap, ss, Mbox) :
            Len(r) > 1 => GenOf(m) = GenOf(r) - 1

\* C8, as the code has it: in a handler branch the branch's own
\* statements refer to round at generation i and to mbox at generation
\* i-1 (no suffix when i = 0); the statements spliced into the branch do
\* not: each refers to mbox and round at one and the same generation.
C8_OwnStatementsLag ==
  pc = "done"
  => \A B \in Branches(heap, main_while) :
       LET own == OwnStatements(heap, block_items(heap, B))
           spliced == Splices(heap, block_items(heap, B))
       IN /\ \A r \in Refs(heap, own, Round), m \in Refs(heap, own, Mbox) :
               Len(r) > 1 => GenOf(m) = GenOf(r) - 1
          /\ \A j \in 1..Len(spliced) :
               \A r \in Refs(heap, <<spliced[j]>>, Round),
                  m \in Refs(heap, <<spliced[j]>>, Mbox) :
                 GenOf(r) \in 0..(k - 1) /\ GenOf(m) = GenOf(r)

C8_Witness ==
  /\ pc = "done" /\ source.handlers = <<"use", "use">> /\ k = 2
  /\ \E B \in Branches(heap, main_while) :
       /\ Refs(heap, OwnStatements(heap, block_items(heap, B)), Mbox) = {Gen(Mbox, 0)}
       /\ Refs(heap, Splices(heap, block_items(heap, B)), Mbox) = {Gen(Mbox, 1)}


(***************************************************************************)
(* src/cfg.py                                                              *)
(*                                                                         *)
(* A ControlFlowGraph is [nodes, edges]: the vertices in insertion order   *)
(* and the set of edges.  Building one threads a record c = [h, g, err]:   *)
(* the store, the graph, and the exception raised ("" while none), after   *)
(* which nothing more is added.                                            *)
(***************************************************************************)
\* DiGraph.add_node; networkx refuses None as a vertex.
add_node(c, n) ==
  IF c.err # "" THEN c
  ELSE IF n = None THEN [c EXCEPT !.err = "ValueError"]
  ELSE IF n \in Range(c.g.nodes) THEN c
  ELSE [c EXCEPT !.g.nodes = Append(@, n)]

\* DiGraph.add_edge: u, then v, becomes a vertex, None being refused when
\* its turn comes; then the edge is added.
add_edge(c, u, v) ==
  IF c.err # "" THEN c
  ELSE IF u = None THEN [c EXCEPT !.err = "ValueError"]
  ELSE IF v = None THEN [add_node(c, u) EXCEPT !.err = "ValueError"]
  ELSE [add_node(add_node(c, u), v) EXCEPT !.g.edges = @ \cup {<<u, v>>}]

\* A new object; none is made once an exception is on its way up.
New(c, node) == IF c.err # "" THEN c ELSE [c EXCEPT !.h = Append(@, node)]

\* Lines 197-199 with an edge from the end of the body back to the guard.
WhileEdgesAndBack(c, first, last, body_first, body_last) ==
  add_edge(add_edge(add_edge(add_edge(c, first, body_first), body_last, last),
                    first, last),
           body_last, first)

\* ast_to_cfg, c_ast.While, lines 197-199: guard -> body, body -> end,
\* guard -> end.
WhileEdges(c, first, last, body_first, body_last) ==
  add_edge(add_edge(add_edge(c, first, body_first), body_last, last),
           first, last)

\* Line 173 run only when the conditional has no else branch.
IfSkipEdgeNoElse(c, a, first, last) ==
  IF iffalse(c.h, a) = None THEN add_edge(c, first, last) ELSE c

\* ast_to_cfg, c_ast.If, line 173: digraph.add_edge(first, last).
IfSkipEdge(c, a, first, last) == add_edge(c, first, last)

\* Lines 219-220 left out: consecutive statements are not chained.
ChainEdgeNone(c, old_i_last, i_first) == c

\* ast_to_cfg, c_ast.Compound, lines 219-220.
ChainEdge(c, old_i_last, i_first) ==
  IF old_i_last # None THEN add_edge(c, old_i_last, i_first) ELSE c

\* r, once the steps cs have been evaluated, one after the other.  TLC
\* evaluates a value when it is first read: taking the steps in the order
\* the code runs them bounds the depth of the evaluation.
InOrder(cs, r) == IF \A i \in DOMAIN cs : Len(cs[i].h) >= 0 THEN r ELSE r

\* ast_to_cfg returns [c, first, last]; `log` records, for every call that
\* returned, the pair it returned.  An exception (c.err) ends every call
\* under way: nothing is created, added or returned after it.
RECURSIVE ast_to_cfg(_, _), CfgItems(_, _, _, _, _)
ast_to_cfg(c, a) ==
  LET typ == c.h[a].kind
      n == Len(c.h)
      Ret(cc, first, last) ==
        IF cc.err # "" THEN [c |-> cc, first |-> None, last |-> None]
        ELSE [c |-> [cc EXCEPT !.log = @ @@ (a :> <<first, last>>)],
              first |-> first, last |-> last]
  IN IF c.err # "" THEN [c |-> c, first |-> None, last |-> None]
     ELSE IF typ = "If" THEN
       LET first == n + 1
           last == n + 2
           true_branch_first == n + 3
           c1 == New(New(New(c, Node("IfStart", <<>>, <<>>)),
                         Node("IfEnd", <<>>, <<>>)),
                     Node("If", <<>>, <<cond(c.h, a), None, None>>))
           t == ast_to_cfg(add_node(c1, last), iftrue(c.h, a))
           c2 == add_node(add_node(add_node(add_node(t.c, first),
                          true_branch_first), t.first), t.last)
           c3 == add_edge(add_edge(add_edge(c2, first, true_branch_first),
                          true_branch_first, t.first), t.last, last)
           m == Len(c3.h)
           false_branch_first == m + 2
           c4 == New(New(c3, Node("UnaryOp", <<"!">>, <<cond(c.h, a)>>)),
                     Node("If", <<>>, <<m + 1, None, None>>))
           c5 == add_edge(add_node(c4, false_branch_first), first, false_branch_first)
           f == ast_to_cfg(c5, iffalse(c.h, a))
           c6 == add_node(add_node(f.c, f.first), f.last)
           c7 == add_edge(add_edge(c6, false_branch_first, f.first), f.last, last)
       IN IF iffalse(c.h, a) # None
          THEN InOrder(<<c1, t.c, c2, c3, c5, f.c, c7>>,
                       Ret(IfSkipEdge(c7, a, first, last), first, last))
          ELSE InOrder(<<c1, t.c, c2, c3>>,
                       Ret(IfSkipEdge(c3, a, first, last), first, last))
     ELSE IF typ = "While" THEN
       LET b == ast_to_cfg(c, stmt(c.h, a))
           first == Len(b.c.h) + 1
           last == Len(b.c.h) + 2
           c1 == New(New(b.c, Node("While", <<>>, <<cond(c.h, a), None>>)),
                     Node("WhileEnd", <<>>, <<>>))
           c2 == add_node(c1, first)
           c3 == WhileEdges(c2, first, last, b.first, b.last)
       IN InOrder(<<b.c, c2, c3>>, Ret(c3, first, last))
     ELSE IF typ = "Compound" THEN
       LET r == CfgItems(c, a, 1, None, None)
       IN IF NoItems(c.h, a)
          THEN Ret([c EXCEPT !.err = "TypeError"], None, None)
          ELSE Ret(r.c, r.first, r.last)
     ELSE IF typ = "FuncDef" THEN
       LET b == ast_to_cfg(c, c.h[a].kids[3])
           first == Len(b.c.h) + 1
           last == Len(b.c.h) + 2
           c1 == New(New(b.c, Node("FuncDef", <<>>,
                                   <<c.h[a].kids[1], c.h[a].kids[2], None>>)),
                     Node("FuncDefEnd", <<>>, <<>>))
           c2 == add_node(c1, first)
           c3 == add_edge(add_edge(c2, first, b.first), b.last, last)
       IN InOrder(<<b.c, c2, c3>>, Ret(c3, first, last))
     ELSE Ret(add_node(c, a), a, a)
\* The loop `for i in items` over a list, lines 216-227; idx is the
\* position reached.
CfgItems(c, a, idx, first, old_i_last) ==
  IF c.err # "" \/ idx > Len(c.h[a].kids)
  THEN [c |-> c, first |-> first, last |-> old_i_last]
  ELSE LET i == ast_to_cfg(c, c.h[a].kids[idx])
           c1 == ChainEdge(i.c, old_i_last, i.first)
       IN InOrder(<<i.c, c1>>,
                  CfgItems(c1, a, idx + 1,
                           IF first = None THEN i.first ELSE first, i.last))

(***************************************************************************)
(* The ASTs a ControlFlowGraph is built from: every statement made of      *)
(* assignments, conditionals with and without an else branch, loops and    *)
(* blocks (empty ones included) with at most MaxSize statements, alone or  *)
(* as the body of a function.  An empty block is the parser's, whose       *)
(* block_items is None and which ast_to_cfg cannot walk (TypeError), or a  *)
(* constructed one, whose block_items is [] and whose region is            *)
(* (None, None).                                                           *)
(***************************************************************************)
MaxSize == 3

Leaf == Assignment(ID(<<"x">>), Constant("0"))
Guard == ID(<<"c">>)

\* Stmts(n): the statements holding n assignments, conditionals and loops;
\* Blocks(n): the statement lists holding n of them.
RECURSIVE Stmts(_), Blocks(_)
Stmts(n) ==
  (IF n = 1 THEN {Leaf} ELSE {})
  \cup {If(Guard, Compound(b), NoneT) : b \in Blocks(n - 1)}
  \cup {While(Guard, Compound(b)) : b \in Blocks(n - 1)}
  \cup UNION {{If(Guard, Compound(b1), Compound(b2)) :
                 b1 \in Blocks(j), b2 \in Blocks(n - 1 - j)} : j \in 0..(n - 1)}
Blocks(n) ==
  IF n = 0 THEN {<<>>}
  ELSE UNION {{<<s>> \o b : s \in Stmts(j), b \in Blocks(n - j)} : j \in 1..n}

\* The term as the parser builds it: every block without statements has
\* block_items None.
RECURSIVE AsParsed(_)
AsParsed(t) ==
  IF t = Compound(<<>>) THEN EmptyBlock
  ELSE Node(t.kind, t.name, [i \in 1..Len(t.kids) |-> AsParsed(t.kids[i])])

MainDecl == Decl(<<"main">>, FuncDecl(TypeDecl(<<"main">>, IdentifierType("int"))))

\* The ASTs built by hand, whose empty blocks have block_items [], as
\* cfg_path_to_ast makes them, and the same ASTs as parsed.
Constructed ==
  UNION {Stmts(n) : n \in 1..MaxSize}
  \cup UNION {{Compound(b) : b \in Blocks(n)} : n \in 0..(MaxSize - 1)}
  \cup UNION {{FuncDef(MainDecl, Compound(b)) : b \in Blocks(n)} : n \in 0..MaxSize}

CfgSources == Constructed \cup {AsParsed(t) : t \in Constructed}

InitCfg ==
  /\ source \in CfgSources
  /\ k = 1
  /\ syncvariables = Config
  /\ LET parsed == Load(<<>>, source)
     IN heap = parsed.h /\ ast = parsed.id
  /\ pc = "start"
  /\ err = ""
  /\ main_while = None
  /\ while_body = <<>>
  /\ upons = <<>>
  /\ next_upon = 1
  /\ digraph = EmptyGraph
  /\ region = <<None, None>>
  /\ regions = <<>>
  /\ NoGraphCall

\* ControlFlowGraph.__init__ -> ast_to_cfg(self, ast), lines 31-33.
ControlFlowGraph ==
  /\ pc = "start"
  /\ LET r == ast_to_cfg([h |-> heap, g |-> EmptyGraph, err |-> "", log |-> <<>>], ast)
     IN /\ heap' = r.c.h
        /\ digraph' = r.c.g
        /\ err' = r.c.err
        /\ regions' = r.c.log
        /\ region' = IF r.c.err = "" THEN <<r.first, r.last>> ELSE region
        /\ pc' = IF r.c.err = "" THEN "built" ELSE "raised"
  /\ UNCHANGED <<source, ast, k, syncvariables, main_while, while_body, upons,
                 next_upon, graph_vars>>

NextCfg == ControlFlowGraph

SpecCfg == InitCfg /\ [][NextCfg]_vars

(***************************************************************************)
(* Properties of ast_to_cfg.                                               *)
(***************************************************************************)
Successors(g, u) == {v \in Range(g.nodes) : <<u, v>> \in g.edges}
Predecessors(g, v) == {u \in Range(g.nodes) : <<u, v>> \in g.edges}

\* The vertices reachable from those of S.
RECURSIVE ReachableFrom(_, _)
ReachableFrom(g, S) ==
  LET more == S \cup UNION {Successors(g, u) : u \in S}
  IN IF more = S THEN S ELSE ReachableFrom(g, more)

\* The guard vertices of the conditional a among the vertices vs: a
\* conditional without branches on a's condition, or on its negation.
TrueGuards(h, a, vs) ==
  {v \in vs : h[v].kind = "If" /\ h[v].kids = <<cond(h, a), None, None>>}
FalseGuards(h, a, vs) ==
  {v \in vs : /\ h[v].kind = "If"
              /\ iftrue(h, v) = None /\ iffalse(h, v) = None
              /\ h[cond(h, v)].kind = "UnaryOp"
              /\ h[cond(h, v)].name = <<"!">>
              /\ h[cond(h, v)].kids = <<cond(h, a)>>}

\* C9: translating any conditional adds the edge entry marker -> exit
\* marker whether or not there is a false-branch, with entry -> true guard
\* -> first(true-branch) and last(true-branch) -> exit, and, only when
\* there is a false-branch, entry -> negated guard -> first(false-branch)
\* and last(false-branch) -> exit; the region returned is (entry marker,
\* exit marker).
C9_Conditional ==
  pc = "built"
  => \A a \in {n \in Under(heap, ast) : heap[n].kind = "If"} :
       LET entry == regions[a][1]
           exit == regions[a][2]
           out == Successors(digraph, entry)
           tg == TrueGuards(heap, a, out)
           fg == FalseGuards(heap, a, out)
       IN /\ heap[entry].kind = "IfStart" /\ heap[exit].kind = "IfEnd"
          /\ <<entry, exit>> \in digraph.edges
          /\ Cardinality(tg) = 1
          /\ \A v \in tg : Successors(digraph, v) = {regions[iftrue(heap, a)][1]}
          /\ <<regions[iftrue(heap, a)][2], exit>> \in digraph.edges
          /\ IF iffalse(heap, a) # None
             THEN /\ Cardinality(fg) = 1
                  /\ \A v \in fg : Successors(digraph, v) = {regions[iffalse(heap, a)][1]}
                  /\ <<regions[iffalse(heap, a)][2], exit>> \in digraph.edges
                  /\ out = tg \cup fg \cup {exit}
             ELSE fg = {} /\ out = tg \cup {exit}
          /\ (a = ast => region = <<entry, exit>>)

C9_Witness ==
  /\ pc = "built"
  /\ source = If(Guard, Compound(<<Leaf>>), Compound(<<Leaf>>))
  /\ <<region[1], region[2]>> \in digraph.edges
  /\ Cardinality(Successors(digraph, region[1])) = 3

\* No block of the term is empty.
RECURSIVE NonEmptySequences(_)
NonEmptySequences(t) ==
  /\ t.kind = "Compound" => Len(t.kids) > 0
  /\ \A i \in 1..Len(t.kids) : NonEmptySequences(t.kids[i])

\* C10: for every AST without an empty sequence, translated into an empty
\* graph, the region (first, last) returned is well formed: last is
\* reachable from first whatever the kind of the node (conditional, loop,
\* sequence, function definition, leaf), first is the only vertex without
\* a predecessor and last the only vertex without a successor.
C10_WellFormedRegion ==
  (pc = "built" /\ NonEmptySequences(source))
  => LET vs == Range(digraph.nodes)
     IN /\ region[1] \in vs /\ region[2] \in vs
        /\ region[2] \in ReachableFrom(digraph, {region[1]})
        /\ {v \in vs : Predecessors(digraph, v) = {}} = {region[1]}
        /\ {v \in vs : Successors(digraph, v) = {}} = {region[2]}

C10_Witness ==
  /\ pc = "built"
  /\ source = FuncDef(MainDecl, Compound(<<Leaf, While(Guard, Compound(<<Leaf>>))>>))
  /\ heap[region[1]].kind = "FuncDef" /\ heap[region[2]].kind = "FuncDefEnd"
  /\ Cardinality(Range(digraph.nodes)) = 6

(***************************************************************************)
(* ControlFlowGraph.get_subgraph_between_nodes, on every graph of          *)
(* MaxVertices vertices (cycles included) and every start and end.         *)
(***************************************************************************)
MaxVertices == 3

\* DiGraph.subgraph: the graph induced on the vertices ns.
subgraph(g, ns) ==
  [nodes |-> SelectSeq(g.nodes, LAMBDA v : v \in ns),
   edges |-> {e \in g.edges : e[1] \in ns /\ e[2] \in ns}]

\* The orders in which a set can be iterated.
Orders(S) ==
  {f \in [1..Cardinality(S) -> S] : \A i, j \in 1..Cardinality(S) : f[i] = f[j] => i = j}

\* Lines 47-52 with the test `tv is not end` left out.
RECURSIVE VisitEachThroughEnd(_, _, _, _)
VisitEachThroughEnd(g, current_visit, e, st) ==
  IF Len(current_visit) = 0 THEN st
  ELSE LET tv == Head(current_visit)
           next == Successors(g, tv)
       IN VisitEachThroughEnd(g, Tail(current_visit), e,
                              [to_visit |-> (st.to_visit \ {tv}) \cup next,
                               nodes |-> st.nodes \cup next])

\* Lines 47-52: `for tv in current_visit`, in the order the set is iterated;
\* st is [to_visit, nodes].
RECURSIVE VisitEach(_, _, _, _)
VisitEach(g, current_visit, e, st) ==
  IF Len(current_visit) = 0 THEN st
  ELSE LET tv == Head(current_visit)
           next == IF tv # e THEN Successors(g, tv) ELSE {}
       IN VisitEach(g, Tail(current_visit), e,
                    [to_visit |-> (st.to_visit \ {tv}) \cup next,
                     nodes |-> st.nodes \cup next])

VertexPairs == {p \in (1..MaxVertices) \X (1..MaxVertices) : p[1] # p[2]}
GraphSources == {[vertices |-> MaxVertices, edges |-> E] : E \in SUBSET VertexPairs}

\* The graph a source describes, its vertices being the objects vs.
GraphOf(src, vs) ==
  [nodes |-> vs, edges |-> {<<vs[p[1]], vs[p[2]]>> : p \in src.edges}]

InitSub ==
  /\ source \in GraphSources
  /\ k = 1
  /\ syncvariables = Config
  /\ LET made == LoadList(<<>>, [i \in 1..source.vertices |-> Leaf])
     IN heap = made.h /\ digraph = GraphOf(source, made.ids)
  /\ ast = None
  /\ pc = "start"
  /\ err = ""
  /\ main_while = None
  /\ while_body = <<>>
  /\ upons = <<>>
  /\ next_upon = 1
  /\ region = <<None, None>>
  /\ regions = <<>>
  /\ NoGraphCall

\* get_subgraph_between_nodes, lines 39-43.
SubgraphBegin ==
  /\ pc = "start"
  /\ \E s, e \in Range(digraph.nodes) :
       /\ start' = s /\ end' = e
       /\ nodes' = {s}
       /\ to_visit' = {s}
  /\ pc' = "visiting"
  /\ UNCHANGED <<source, heap, ast, k, syncvariables, err, main_while,
                 while_body, upons, next_upon, digraph, region, regions,
                 place, graph, returned>>

\* Lines 45-52: one turn of `while len(to_visit) > 0`.
SubgraphRound ==
  /\ pc = "visiting"
  /\ Cardinality(to_visit) > 0
  /\ \E current_visit \in Orders(to_visit) :
       LET st == VisitEach(digraph, current_visit, end,
                           [to_visit |-> to_visit, nodes |-> nodes])
       IN to_visit' = st.to_visit /\ nodes' = st.nodes
  /\ UNCHANGED <<source, heap, ast, k, syncvariables, pc, err, main_while,
                 while_body, upons, next_upon, digraph, region, regions,
                 start, end, place, graph, returned>>

\* Lines 54-56.
SubgraphReturn ==
  /\ pc = "visiting"
  /\ Cardinality(to_visit) = 0
  /\ nodes' = nodes \cup {end}
  /\ returned' = subgraph(digraph, nodes \cup {end})
  /\ pc' = "returned"
  /\ UNCHANGED <<source, heap, ast, k, syncvariables, err, main_while,
                 while_body, upons, next_upon, digraph, region, regions,
                 start, end, to_visit, place, graph>>

NextSub == SubgraphBegin \/ SubgraphRound \/ SubgraphReturn

SpecSub == InitSub /\ [][NextSub]_vars

\* The call is not suspended: a step that can be taken is taken.
SpecSubFair == SpecSub /\ WF_vars(NextSub)

\* The paths of g of at most n vertices.
Paths(g, n) ==
  UNION {{p \in [1..m -> Range(g.nodes)] :
            \A i \in 1..(m - 1) : <<p[i], p[i + 1]>> \in g.edges} : m \in 1..n}

\* The vertices reachable from s by a path none of whose vertices but the
\* last is e.
ReachableAvoiding(g, s, e) ==
  {p[Len(p)] : p \in {q \in Paths(g, Len(g.nodes)) :
                        q[1] = s /\ \A i \in 1..(Len(q) - 1) : q[i] # e}}

\* C11: for every graph and vertices s, e of it, the call returns the
\* subgraph induced on exactly {s} with {e} and the vertices reachable from
\* s by a path none of whose non-final vertices is e: s and e are always
\* in it, also when e is unreachable from s, and a successor of e is in it
\* only if such a path reaches it.
C11_SubgraphBetween ==
  pc = "returned"
  => LET expected == {start, end} \cup ReachableAvoiding(digraph, start, end)
     IN /\ Range(returned.nodes) = expected
        /\ returned.edges
             = {e \in digraph.edges : e[1] \in expected /\ e[2] \in expected}
        /\ \A v \in Successors(digraph, end) :
             v \in Range(returned.nodes)
             => v \in {start, end} \cup ReachableAvoiding(digraph, start, end)

C11_Witness ==
  /\ pc = "returned" /\ start # end
  /\ end \notin ReachableFrom(digraph, {start})
  /\ end \in Range(returned.nodes)
  /\ Successors(digraph, end) # {}
  /\ Successors(digraph, end) \cap Range(returned.nodes) = {}

\* C19 as stated: the call terminates for every finite graph and every
\* start and end, also when a cycle that does not pass through end is
\* reachable from start.
C19_Terminates == <>(pc = "returned")

(***************************************************************************)
(* ControlFlowGraph.insert_graph: self is an acyclic graph of MaxVertices  *)
(* vertices, place any vertex of self, and `graph` is any graph of up to   *)
(* MaxInserted vertices of its own (cyclic ones included) or the graph of  *)
(* a ControlFlowGraph built from a conditional or a loop, whose guard      *)
(* vertices share the condition object.                                    *)
(***************************************************************************)
MaxInserted == 2

\* copy.deepcopy(graph): new objects for the vertices, in the same order,
\* with the same edges between them.  The whole graph is copied under one
\* memo, so an object that two vertices refer to has one copy.
deepcopy(h, g) ==
  LET r == CopyList(h, <<>>, g.nodes)
      copy_of(v) == r.ids[Pos(g.nodes, v)]
  IN [h |-> r.h,
      g |-> [nodes |-> r.ids,
             edges |-> {<<copy_of(e[1]), copy_of(e[2])>> : e \in g.edges}]]

\* nx.union of two graphs without a common vertex.
union(g1, g2) == [nodes |-> g1.nodes \o g2.nodes, edges |-> g1.edges \cup g2.edges]

\* DiGraph.update(edges, nodes): the vertices, then the edges, are added.
update(g, es, ns) ==
  [nodes |-> g.nodes \o SelectSeq(ns, LAMBDA v : v \notin Range(g.nodes)),
   edges |-> g.edges \cup es]

\* nx.topological_sort(g): the orders of the vertices that follow every
\* edge; none when g has a cycle.  Which of them comes out depends on the
\* release of the library.
topological_sort(g) ==
  {f \in Orders(Range(g.nodes)) :
     \A e \in g.edges : Pos(f, e[1]) < Pos(f, e[2])}

\* Lines 85-88 with the copy's last vertex joined to the old successors.
ConnectInline(g, p, first_node_graph, last_node_graph, old_successors) ==
  [g EXCEPT !.edges = (@ \ {<<p, s>> : s \in old_successors})
                        \cup {<<p, first_node_graph>>}
                        \cup {<<last_node_graph, s>> : s \in old_successors}]

\* Lines 85-88: the edges out of place are removed, the edge from place to
\* the first vertex is added.
ConnectInPlace(g, p, first_node_graph, last_node_graph, old_successors) ==
  [g EXCEPT !.edges = (@ \ {<<p, s>> : s \in old_successors})
                        \cup {<<p, first_node_graph>>}]

InsertedSources ==
  UNION {{[vertices |-> n, edges |-> E] :
            E \in SUBSET {p \in (1..n) \X (1..n) : p[1] # p[2]}} : n \in 0..MaxInserted}

\* The ASTs whose ControlFlowGraph is passed as `graph`: lines 147 and 161
\* give the two guards of a conditional the same condition object.
BuiltSources ==
  {[ast |-> t] : t \in {If(Guard, Compound(<<Leaf>>), Compound(<<Leaf>>)),
                        If(Guard, Compound(<<Leaf>>), NoneT),
                        While(Guard, Compound(<<Leaf>>))}}

InsertSources ==
  {[vertices |-> MaxVertices, edges |-> E, inserted |-> i] :
     E \in SUBSET {p \in VertexPairs : p[1] < p[2]},
     i \in InsertedSources \cup BuiltSources}

\* The objects of the two graphs of a source, self's, then those of
\* `graph`, and the graph passed.
InsertObjects(src) ==
  LET mine == LoadList(<<>>, [i \in 1..src.vertices |-> Leaf])
  IN IF "ast" \in DOMAIN src.inserted
     THEN LET parsed == Load(mine.h, src.inserted.ast)
              built == ast_to_cfg([h |-> parsed.h, g |-> EmptyGraph,
                                   err |-> "", log |-> <<>>], parsed.id)
          IN [h |-> built.c.h, self |-> mine.ids, graph |-> built.c.g]
     ELSE LET theirs == LoadList(mine.h, [i \in 1..src.inserted.vertices |-> Leaf])
          IN [h |-> theirs.h, self |-> mine.ids,
              graph |-> GraphOf(src.inserted, theirs.ids)]

InitInsert ==
  /\ source \in InsertSources
  /\ k = 1
  /\ syncvariables = Config
  /\ LET made == InsertObjects(source)
     IN /\ heap = made.h
        /\ digraph = GraphOf(source, made.self)
        /\ graph = made.graph
  /\ ast = None
  /\ pc = "start"
  /\ err = ""
  /\ main_while = None
  /\ while_body = <<>>
  /\ upons = <<>>
  /\ next_upon = 1
  /\ region = <<None, None>>
  /\ regions = <<>>
  /\ start = None /\ end = None /\ nodes = {} /\ to_visit = {}
  /\ place = None /\ returned = None

\* insert_graph, lines 68-88.
insert_graph ==
  /\ pc = "start"
  /\ \E p \in Range(digraph.nodes) :
       /\ place' = p
       /\ IF Len(graph.nodes) > 0
          THEN LET graph_copy == deepcopy(heap, graph)
                   augmented_graph == union(digraph, graph_copy.g)
                   updated == update(digraph, augmented_graph.edges,
                                     augmented_graph.nodes)
                   sorts == topological_sort(graph_copy.g)
               IN /\ heap' = graph_copy.h
                  /\ IF sorts = {}
                     THEN /\ digraph' = updated
                          /\ err' = "NetworkXUnfeasible"
                          /\ pc' = "raised"
                     ELSE \E graph_copy_nodes_ordered \in sorts :
                            /\ digraph' = ConnectInPlace(
                                 updated, p, graph_copy_nodes_ordered[1],
                                 graph_copy_nodes_ordered[Len(graph_copy_nodes_ordered)],
                                 Successors(updated, p))
                            /\ err' = ""
                            /\ pc' = "inserted"
          ELSE /\ pc' = "inserted"
               /\ UNCHANGED <<heap, digraph, err>>
  /\ UNCHANGED <<source, ast, k, syncvariables, main_while, while_body,
                 upons, next_upon, region, regions, start, end, nodes,
                 to_visit, graph, returned>>

NextInsert == insert_graph

SpecInsert == InitInsert /\ [][NextInsert]_vars

\* The two graphs before the call, and the vertices added by it.
Original == GraphOf(source, InsertObjects(source).self)
Argument == InsertObjects(source).graph
Inserted == Range(digraph.nodes) \ Range(Original.nodes)

\* The objects that the vertices ns refer to, themselves included.
Reached(h, ns) == UNION {Under(h, v) : v \in Range(ns)}
\* Two vertices of the graph passed refer to a common object.
SharesObject ==
  \E u, v \in Range(graph.nodes) :
     u # v /\ Under(heap, u) \cap Under(heap, v) # {}

\* C12: after insert_graph with a non-empty graph, place has exactly one
\* outgoing edge, to a vertex of the copy that has no predecessor in the
\* copy (the first of a topological order); no edge leads from a vertex of
\* the copy to a vertex of the original graph, so none from the copy's last
\* vertex to the former successors of place; every original edge that does
\* not start at place is still there; the graph passed in and its vertices
\* are as before, and the inserted vertices are new objects, as many as the
\* graph has; they denote what the vertices of the graph denote, and the
\* call made one new object for every object the graph's vertices refer
\* to, an object shared by two vertices included.
C12_InsertGraph ==
  (pc = "inserted" /\ Len(graph.nodes) > 0)
  => /\ \E v \in Inserted :
          /\ Successors(digraph, place) = {v}
          /\ Predecessors(digraph, v) = {place}
     /\ \A e \in digraph.edges : e[1] \in Inserted => e[2] \in Inserted
     /\ \A e \in Original.edges : e[1] # place => e \in digraph.edges
     /\ graph = Argument
     /\ SubSeq(heap, 1, Len(InsertObjects(source).h)) = InsertObjects(source).h
     /\ \A v \in Inserted : v > Len(InsertObjects(source).h)
     /\ Cardinality(Inserted) = Len(graph.nodes)
     /\ Cardinality({e \in digraph.edges : e[1] \in Inserted})
          = Cardinality(graph.edges)
     /\ {Show(heap, v) : v \in Inserted}
          = {Show(heap, v) : v \in Range(graph.nodes)}
     /\ Len(heap) - Len(InsertObjects(source).h)
          = Cardinality(Reached(heap, graph.nodes))
     /\ Cardinality(Reached(heap, SelectSeq(digraph.nodes, LAMBDA v : v \in Inserted)))
          = Cardinality(Reached(heap, graph.nodes))

C12_Witness ==
  /\ pc = "inserted"
  /\ Len(graph.nodes) > 2 /\ graph.edges # {}
  /\ SharesObject
  /\ Successors(Original, place) # {}
  /\ \E e \in Original.edges : e[1] # place

(***************************************************************************)
(* cfg_path_to_ast and get_if_path, on the chains of at most MaxChain      *)
(* vertices of every class a ControlFlowGraph holds, and on the chains of  *)
(* two conditional guards and three statements; the vertices are added to  *)
(* the graph in the order of the chain or against it.                      *)
(***************************************************************************)
MaxChain == 3

VertexKinds ==
  {"Leaf", "If", "While", "FuncDef", "IfStart", "IfEnd", "WhileEnd", "FuncDefEnd"}

\* The vertex of each class, as ast_to_cfg makes it.
VertexTerm(kind) ==
  CASE kind = "Leaf" -> Leaf
    [] kind = "If" -> If(Guard, NoneT, NoneT)
    [] kind = "While" -> While(Guard, NoneT)
    [] kind = "FuncDef" -> FuncDef(MainDecl, NoneT)
    [] OTHER -> Node(kind, <<>>, <<>>)

TwoGuardsThreeLeaves ==
  {c \in [1..5 -> {"Leaf", "If"}] : Cardinality({i \in 1..5 : c[i] = "If"}) = 2}

Chains ==
  UNION {[1..n -> VertexKinds] : n \in 0..MaxChain} \cup TwoGuardsThreeLeaves

PathSources == {[chain |-> c, reversed |-> r] : c \in Chains, r \in BOOLEAN}

ChainObjects(src) ==
  LoadList(<<>>, [i \in 1..Len(src.chain) |-> VertexTerm(src.chain[i])])

Reverse(s) == [i \in 1..Len(s) |-> s[Len(s) + 1 - i]]

\* The path over the objects vs, in this order.
PathOf(src, vs) ==
  [nodes |-> IF src.reversed THEN Reverse(vs) ELSE vs,
   edges |-> {<<vs[i], vs[i + 1]>> : i \in 1..(Len(vs) - 1)}]

InitPath ==
  /\ source \in PathSources
  /\ k = 1
  /\ syncvariables = Config
  /\ LET made == ChainObjects(source)
     IN heap = made.h /\ digraph = PathOf(source, made.ids)
  /\ ast = None
  /\ pc = "start"
  /\ err = ""
  /\ main_while = None
  /\ while_body = <<>>
  /\ upons = <<>>
  /\ next_upon = 1
  /\ region = <<None, None>>
  /\ regions = <<>>
  /\ NoGraphCall

\* Lines 286-289 without IfStart.
MarkersButIfStart == {"FuncDefEnd", "IfEnd", "WhileEnd"}

\* Lines 286-289: the classes of the vertices that are skipped.
Markers == {"FuncDefEnd", "IfEnd", "IfStart", "WhileEnd"}

\* Lines 269-291: `for n in nodes`; st is [h, current_compound,
\* previous_compound].
RECURSIVE PathNodes(_, _)
PathNodes(st, ns) ==
  IF AtEnd(st.h, ns) THEN st
  ELSE LET n == Head(ns)
           typ == st.h[n].kind
           compound == Len(st.h) + 1
           inner_ast == Len(st.h) + 2
           made == IF typ = "FuncDef"
                   THEN Node("FuncDef", <<>>,
                             <<st.h[n].kids[1], st.h[n].kids[2], compound>>)
                   ELSE IF typ = "While"
                   THEN Node("While", <<>>, <<cond(st.h, n), compound>>)
                   ELSE Node("If", <<>>, <<cond(st.h, n), compound, None>>)
           h1 == Append(Append(st.h, Node("Compound", <<>>, <<>>)), made)
       IN IF typ \in {"FuncDef", "While", "If"}
          THEN PathNodes([h |-> [h1 EXCEPT ![st.current_compound].kids
                                              = Append(@, inner_ast)],
                          current_compound |-> compound,
                          previous_compound |-> st.current_compound],
                         Tail(ns))
          ELSE IF typ \notin Markers
          THEN PathNodes([st EXCEPT !.h[st.current_compound].kids = Append(@, n)],
                         Tail(ns))
          ELSE PathNodes(st, Tail(ns))

\* cfg_path_to_ast, lines 263-293.
cfg_path_to_ast ==
  /\ pc = "start"
  /\ \E ordered \in topological_sort(digraph) :
       LET st == PathNodes([h |-> Append(heap, Node("Compound", <<>>, <<>>)),
                            current_compound |-> Len(heap) + 1,
                            previous_compound |-> None], ordered)
       IN heap' = st.h /\ ast' = Len(heap) + 1
  /\ pc' = "ast"
  /\ UNCHANGED <<source, k, syncvariables, err, main_while, while_body,
                 upons, next_upon, digraph, region, regions, graph_vars>>

\* Line 297 with the loops' guards kept too.
IsIfOrWhile(h, node) == h[node].kind \in {"If", "While"}

\* Line 297: type(node) == c_ast.If.
IsIf(h, node) == h[node].kind = "If"

\* nx.add_path: the vertices of the path, then the edges between
\* neighbours.
add_path(g, ns) ==
  [nodes |-> g.nodes \o SelectSeq(ns, LAMBDA v : v \notin Range(g.nodes)),
   edges |-> g.edges \cup {<<ns[i], ns[i + 1]>> : i \in 1..(Len(ns) - 1)}]

\* get_if_path, lines 296-302.
get_if_path ==
  /\ pc = "start"
  /\ \E ordered \in topological_sort(digraph) :
       returned' = add_path(EmptyGraph, SelectSeq(ordered, LAMBDA v : IsIf(heap, v)))
  /\ pc' = "if_path"
  /\ UNCHANGED <<source, heap, ast, k, syncvariables, err, main_while,
                 while_body, upons, next_upon, digraph, region, regions,
                 start, end, nodes, to_visit, place, graph>>

NextPath == cfg_path_to_ast \/ get_if_path

SpecPath == InitPath /\ [][NextPath]_vars

\* The statements a chain of vertex classes stands for: a statement is
\* itself, a marker is nothing, a guard is its construct around all that
\* follows.
RECURSIVE Nested(_)
Nested(chain) ==
  IF Len(chain) = 0 THEN <<>>
  ELSE LET body == Compound(Nested(Tail(chain)))
       IN CASE Head(chain) = "Leaf" -> <<Leaf>> \o Nested(Tail(chain))
            [] Head(chain) = "If" -> <<If(Guard, body, NoneT)>>
            [] Head(chain) = "While" -> <<While(Guard, body)>>
            [] Head(chain) = "FuncDef" -> <<FuncDef(MainDecl, body)>>
            [] OTHER -> Nested(Tail(chain))

\* The places of the tree under root that hold the object v.
Occurrences(h, root, v) ==
  UNION {{<<n, i>> : i \in {j \in DOMAIN h[n].kids : h[n].kids[j] = v}} :
           n \in Under(h, root)}

\* The vertices of the chain of a class among kinds, in the chain's order.
VerticesOf(kinds) ==
  SelectSeq(ChainObjects(source).ids, LAMBDA v : heap[v].kind \in kinds)

\* The objects under root that are not below one of the vertices, in the
\* order a walk from left to right meets them.
RECURSIVE Walk(_, _, _)
Walk(h, n, stops) ==
  IF n = None THEN <<>>
  ELSE IF n \in stops THEN <<n>>
  ELSE LET Below[i \in 0..Len(h[n].kids)] ==
             IF i = 0 THEN <<>> ELSE Below[i - 1] \o Walk(h, h[n].kids[i], stops)
       IN <<n>> \o Below[Len(h[n].kids)]

\* C13: for every chain, the tree returned holds no marker (IfStart, IfEnd,
\* WhileEnd, FuncDefEnd); every vertex that is neither a marker nor a guard
\* is in it exactly once, as the object it is, in the order of the chain;
\* every FuncDef, While and If guard has become a new construct of its class
\* whose body holds all that follows it in the chain; and no conditional of
\* the tree has a false branch.
C13_PathToAst ==
  pc = "ast"
  => /\ Show(heap, ast) = Compound(Nested(source.chain))
     /\ \A n \in Under(heap, ast) : heap[n].kind \notin Markers
     /\ \A v \in Range(VerticesOf(Markers \cup {"If", "While", "FuncDef"})) :
          v \notin Under(heap, ast)
     /\ \A v \in Range(VerticesOf({"Assignment"})) :
          Cardinality(Occurrences(heap, ast, v)) = 1
     /\ SelectSeq(Walk(heap, ast, Range(digraph.nodes)),
                  LAMBDA n : n \in Range(digraph.nodes))
          = VerticesOf({"Assignment"})
     /\ \A n \in Under(heap, ast) : heap[n].kind = "If" => iffalse(heap, n) = None

C13_Witness ==
  /\ pc = "ast"
  /\ source.reversed
  /\ source.chain = <<"If", "IfStart", "Leaf">>
  /\ Show(heap, ast) = Compound(<<If(Guard, Compound(<<Leaf>>), NoneT)>>)

\* C14: for every chain with at least one conditional guard, get_if_path
\* returns a new graph whose vertices are exactly the conditional guards of
\* the chain (statements, loop guards and markers left out), in the chain's
\* order, and whose edges join each of them to the next and nothing else;
\* the input is left as it was; two guards and three statements give two
\* vertices and one edge.
C14_IfPath ==
  (pc = "if_path" /\ \E i \in DOMAIN source.chain : source.chain[i] = "If")
  => LET guards == VerticesOf({"If"})
     IN /\ returned.nodes = guards
        /\ Range(returned.nodes)
             = {v \in Range(digraph.nodes) : heap[v].kind = "If"}
        /\ returned.edges
             = {<<guards[i], guards[i + 1]>> : i \in 1..(Len(guards) - 1)}
        /\ digraph = PathOf(source, ChainObjects(source).ids)
        /\ heap = ChainObjects(source).h
        /\ source.chain \in TwoGuardsThreeLeaves
             => Len(returned.nodes) = 2 /\ Cardinality(returned.edges) = 1

C14_Witness ==
  /\ pc = "if_path"
  /\ source.reversed
  /\ source.chain = <<"Leaf", "If", "Leaf", "If", "Leaf">>
  /\ Len(returned.nodes) = 2
  /\ returned.edges = {<<returned.nodes[1], returned.nodes[2]>>}

(***************************************************************************)
(* Further properties of unfold.                                           *)
(***************************************************************************)

\* The Continue statements the program had when parsed, under the branch B.
OriginalContinues(h, B) ==
  {c \in Under(h, B) : c <= Len(Parsed.h) /\ h[c].kind = "Continue"}

\* The block under B that holds the statement c.
BlockOf(h, B, c) ==
  CHOOSE b \in Under(h, B) : h[b].kind = "Compound" /\ c \in Range(block_items(h, b))

\* The block ends with a copy of the template renamed to generation i, then
\* the Continue c.
SplicedBefore(h, b, c, i) ==
  LET items == block_items(h, b)
      m == Len(while_body)
  IN /\ items[Len(items)] = c
     /\ Len(items) > m
     /\ Show(h, items[Len(items) - m]) = Havoc(Gen(Mbox, i), Gen(Round, i))
     /\ \A j \in 1..m :
          /\ items[Len(items) - m - 1 + j] > Len(Parsed.h)
          /\ h[items[Len(items) - m - 1 + j]].kind = h[while_body[j]].kind

\* C15 as stated, on the one call of the expansion made for each handler
\* when k = 1: every Continue of the handler's branch, directly in it or
\* nested in conditionals, also when the branch has a Continue of its own,
\* has a copy of the template of generation 0 spliced immediately before
\* it and is the last statement of its block.
C15_EveryContinueSpliced ==
  (pc = "done" /\ k = 1)
  => \A j \in 1..Len(upons) :
       \A c \in OriginalContinues(heap, iftrue(heap, upons[j])) :
         SplicedBefore(heap, BlockOf(heap, iftrue(heap, upons[j]), c), c, 0)

(***************************************************************************)
(* Further properties of ast_to_cfg.                                       *)
(***************************************************************************)

\* The loops of the AST that have been translated.
Loops == {a \in DOMAIN regions : heap[a].kind = "While"}

\* C16: the graph built from a tree-shaped AST has no edge from the last
\* vertex of a loop's body, or from the loop's end marker, back to the
\* loop's guard, and has no cycle at all: no vertex is reached again from
\* its successors, so no path visits a vertex twice and none stands for a
\* second iteration.
C16_NoBackEdge ==
  pc = "built"
  => /\ \A a \in Loops :
          /\ <<regions[stmt(heap, a)][2], regions[a][1]>> \notin digraph.edges
          /\ <<regions[a][2], regions[a][1]>> \notin digraph.edges
     /\ \A v \in Range(digraph.nodes) :
          v \notin ReachableFrom(digraph, Successors(digraph, v))
     /\ \A e \in digraph.edges : e[1] # e[2]

C16_Witness ==
  /\ pc = "built"
  /\ source = While(Guard, Compound(<<While(Guard, Compound(<<Leaf>>))>>))
  /\ Cardinality(Loops) = 2
  /\ \A a \in Loops : regions[a][2] \in ReachableFrom(digraph, {regions[a][1]})

\* The objects of the template.
TemplateObjects == UNION {Under(heap, while_body[i]) : i \in 1..Len(while_body)}

\* The number of places of the tree under n: an object held at two places
\* counts twice.
RECURSIVE Places(_, _)
Places(h, n) ==
  IF n = None THEN 0
  ELSE LET Sum[i \in 0..Len(h[n].kids)] ==
             IF i = 0 THEN 0 ELSE Sum[i - 1] + Places(h, h[n].kids[i])
       IN 1 + Sum[Len(h[n].kids)]

\* C17: from the moment the template is taken, through the declaration
\* phase and every expansion call and splice, the template has the
\* statements of the original loop body, its role identifiers unsuffixed;
\* no object of the template is in the program, and the program has as many
\* places as objects (none is held twice), so no statement is shared between
\* two splice points or between a splice point and the template.
C17_TemplateImmutable ==
  (pc \in {"declare", "upons", "done"} \/ (pc = "raised" /\ Len(upons) > 0))
  => /\ ShowList(heap, while_body) = LoopBody(source.handlers)
     /\ Refs(heap, while_body, Round) \subseteq {Round}
     /\ Refs(heap, while_body, Mbox) \subseteq {Mbox}
     /\ TemplateObjects \cap Under(heap, ast) = {}
     /\ Places(heap, ast) = Cardinality(Under(heap, ast))

C17_Witness ==
  /\ pc = "done" /\ k = 1
  /\ source.handlers = <<"twice">>
  /\ Cardinality({n \in Under(heap, iftrue(heap, upons[1])) :
                    Show(heap, n) = Havoc(Gen(Mbox, 0), Gen(Round, 0))}) = 2

\* The handlers of the given shapes, by position in the loop.
HandlersOf(shapes) ==
  {j \in 1..Len(upons) : source.handlers[j] \in shapes}

\* The shapes of handler whose branch has no Continue at any depth.
NoContinue == {"nocont", "empty", "emptynocont"}

\* C18 as stated: a handler whose branch has no Continue at any depth gets
\* no splice and no error: unfold does not raise in the turn of such a
\* handler; when unfold returns, the branch holds the objects it held when
\* parsed and no others, at the same places, and the loop's handlers that
\* end in a Continue have their copy of generation 0 before it all the
\* same.
C18_NoContinueNoSplice ==
  /\ (pc = "raised" /\ next_upon \in DOMAIN source.handlers)
       => source.handlers[next_upon] \notin NoContinue
  /\ pc = "done"
       => /\ \A j \in HandlersOf(NoContinue) :
               LET B == iftrue(heap, upons[j])
               IN /\ block_items(heap, B) = block_items(Parsed.h, B)
                  /\ Under(heap, B) = Under(Parsed.h, B)
                  /\ Splices(heap, block_items(heap, B)) = <<>>
          /\ \A j \in HandlersOf({"direct", "use"}) :
               LET B == iftrue(heap, upons[j])
               IN /\ OriginalContinues(heap, B) # {}
                  /\ \A c \in OriginalContinues(heap, B) :
                       SplicedBefore(heap, B, c, 0)

\* The identifiers and declarations in the store that name a role.
Named ==
  {n \in DOMAIN heap : /\ heap[n].kind \in {"ID", "Decl", "TypeDecl"}
                        /\ <<heap[n].name[1]>> \in {Round, Mbox}}

\* C20: at every moment of unfold every role name is the plain name or the
\* plain name with one suffix _<i>, i in 0..k: an occurrence renamed once is left
\* alone by the passes that go over its statement again, so no name has two
\* suffixes.  The role names of the programs are round and mbox, neither
\* of the form <other role>_<digits>.
C20_OneSuffix ==
  \A n \in Named :
    \/ Len(heap[n].name) = 1
    \/ \E i \in 0..k : heap[n].name = Gen(<<heap[n].name[1]>>, i)

C20_Witness ==
  /\ pc = "done" /\ k = 2
  /\ source.handlers = <<"nested">>
  /\ LET inner == block_items(heap, iftrue(heap, upons[1]))[1]
     IN ShowList(heap, Splices(heap, block_items(heap, iftrue(heap, inner))))
          = <<Havoc(Gen(Mbox, 0), Gen(Round, 0)), Havoc(Gen(Mbox, 1), Gen(Round, 1))>>

====
